---- MODULE Spec2Model ----
(***************************************************************************)
(* Model of the ML service's face-recognition routes                       *)
(* (server/ml-service/app/api/routes/face_recognition.py):                 *)
(* encode_face, detect_faces, match_faces and batch_match.                 *)
(*                                                                         *)
(* The service is stateless: a behaviour is one request being handled.     *)
(* The handlers are operators that compute the response from the request;  *)
(* one action per route draws a request from the bounded input sets and    *)
(* stores the request together with the response the handler returns.      *)
(*                                                                         *)
(* Numbers.  Embedding coordinates, distances and thresholds are the exact *)
(* real values; the input vectors are chosen so that every Euclidean norm  *)
(* that occurs is a whole number (3-4-5 triangles), so the square root is  *)
(* exact.  float('inf') is Inf, a value above every finite distance and    *)
(* threshold of the input sets.                                            *)
(*                                                                         *)
(* Optional values.  Python's None is the empty sequence None and a        *)
(* present value x is Some(x) = <<x>>.  A field a response constructor is  *)
(* not passed keeps the schema's default, None.                            *)
(***************************************************************************)
EXTENDS Integers, Sequences, FiniteSets, TLC

VARIABLES pc, request, response

vars == <<pc, request, response>>

\* ------------------------------------------------------------ bounds
MaxGallery == 2
MaxFaces == 3
MaxLocations == 3

\* ------------------------------------------------------------ values
None == <<>>
Some(x) == <<x>>

\* float('inf')
Inf == 1000

\* ------------------------------------------------------------ numpy
\* Shapes (n,) and (m,) broadcast when equal or when one of them is 1.
Broadcastable(a, b) == Len(a) = Len(b) \/ Len(a) = 1 \/ Len(b) = 1

\* np.array(a) - np.array(b), for broadcastable a and b; otherwise
\* numpy raises ValueError (operands could not be broadcast together).
Subtract(a, b) ==
    LET n == IF Len(a) = 1 THEN Len(b) ELSE Len(a)
        at(v, k) == IF Len(v) = 1 THEN v[1] ELSE v[k]
    IN  [k \in 1..n |-> at(a, k) - at(b, k)]

RECURSIVE SumSquares(_)
SumSquares(v) == IF v = <<>> THEN 0 ELSE v[1] * v[1] + SumSquares(Tail(v))

Sqrt(n) == CHOOSE r \in 0..n : r * r <= n /\ n < (r + 1) * (r + 1)

\* float(np.linalg.norm(v))
Norm(v) == Sqrt(SumSquares(v))

\* ------------------------------------------------------------ matching
\* The list comprehension of lines 259-262 (and 319-322) evaluates the
\* norm for every reference embedding of the candidate; it raises when one
\* of them cannot be broadcast against the query.
DistancesRaise(query, candidate) ==
    \E k \in 1..Len(candidate.embeddings) :
        ~Broadcastable(query, candidate.embeddings[k])

Distances(query, candidate) ==
    [k \in 1..Len(candidate.embeddings) |->
        Norm(Subtract(query, candidate.embeddings[k]))]

\* Python's min over a non-empty list.
RECURSIVE min(_)
min(ds) ==
    IF Len(ds) = 1 THEN ds[1]
    ELSE LET m == min(Tail(ds)) IN IF m < ds[1] THEN m ELSE ds[1]

\* min_distance = min(distances) if distances else float('inf')
MinDistance(query, candidate) ==
    LET distances == Distances(query, candidate)
    IN  IF distances # <<>> THEN min(distances) ELSE Inf

DistanceInfo(candidate, min_distance) ==
    [student_id |-> candidate.student_id, min_distance |-> min_distance]

\* Faulty variant of MatchImproves: a tie replaces the best so far.
MatchImprovesOnTie(min_distance, best_distance) == min_distance <= best_distance

\* if min_distance < best_distance: the candidate replaces the best so far.
MatchImproves(min_distance, best_distance) == min_distance < best_distance

\* The loop of match_faces over request.candidate_embeddings[i..], from the
\* accumulator acc = [raised, best_match, best_distance, all_distances].
RECURSIVE MatchLoop(_, _, _)
MatchLoop(req, i, acc) ==
    IF i > Len(req.candidate_embeddings) THEN acc
    ELSE LET candidate == req.candidate_embeddings[i] IN
         IF DistancesRaise(req.query_embedding, candidate)
         THEN [acc EXCEPT !.raised = TRUE]
         ELSE LET min_distance == MinDistance(req.query_embedding, candidate)
                  better == MatchImproves(min_distance, acc.best_distance)
              IN  MatchLoop(req, i + 1,
                    [raised |-> FALSE,
                     best_match |-> IF better THEN Some(candidate.student_id)
                                    ELSE acc.best_match,
                     best_distance |-> IF better THEN min_distance
                                       ELSE acc.best_distance,
                     all_distances |->
                        IF req.return_all_distances
                        THEN Append(acc.all_distances,
                                    DistanceInfo(candidate, min_distance))
                        ELSE acc.all_distances])

MatchLoopInit ==
    [raised |-> FALSE, best_match |-> None, best_distance |-> Inf,
     all_distances |-> <<>>]

\* Faulty variant of MatchDecision: a distance equal to the threshold matches.
MatchDecisionInclusive(best_match, best_distance, threshold) ==
    IF best_distance <= threshold
    THEN [student_id |-> best_match, distance |-> best_distance,
          confidence |-> 1 - best_distance, status |-> "confident"]
    ELSE [student_id |-> None, distance |-> best_distance,
          confidence |-> 0, status |-> "no_match"]

\* Determine match status (lines 276-282): the MatchResult fields.
MatchDecision(best_match, best_distance, threshold) ==
    IF best_distance < threshold
    THEN [student_id |-> best_match, distance |-> best_distance,
          confidence |-> 1 - best_distance, status |-> "confident"]
    ELSE [student_id |-> None, distance |-> best_distance,
          confidence |-> 0, status |-> "no_match"]

\* Faulty variant of MatchField: a result is built for an unbounded distance.
MatchFieldAlways(best_match, best_distance, threshold) ==
    Some([student_id |-> None, distance |-> best_distance, confidence |-> 0,
          status |-> "no_match"])

\* match=MatchResult(...) if best_distance < float('inf') else None
MatchField(best_match, best_distance, threshold) ==
    IF best_distance < Inf
    THEN Some(MatchDecision(best_match, best_distance, threshold))
    ELSE None

\* Faulty variant of AllDistancesField: the list is returned unconditionally.
AllDistancesFieldAlways(return_all_distances, all_distances) ==
    Some(all_distances)

\* all_distances=all_distances if request.return_all_distances else None
AllDistancesField(return_all_distances, all_distances) ==
    IF return_all_distances THEN Some(all_distances) ELSE None

MatchFailure ==
    [op |-> "match_faces", success |-> FALSE, match |-> None,
     all_distances |-> None,
     error |-> Some("Matching error: operands could not be broadcast together"),
     error_code |-> None]

match_faces(req) ==
    LET r == MatchLoop(req, 1, MatchLoopInit) IN
    IF r.raised THEN MatchFailure
    ELSE [op |-> "match_faces", success |-> TRUE,
          match |-> MatchField(r.best_match, r.best_distance, req.threshold),
          all_distances |->
              AllDistancesField(req.return_all_distances, r.all_distances),
          error |-> None, error_code |-> None]

\* ------------------------------------------------------------ batch
BatchImproves(min_distance, best_distance) == min_distance < best_distance

\* The inner loop of batch_match over request.candidate_embeddings[i..] for
\* one detected face, from acc = [raised, best_match, best_distance].
RECURSIVE BatchCandidateLoop(_, _, _, _)
BatchCandidateLoop(embedding, candidates, i, acc) ==
    IF i > Len(candidates) THEN acc
    ELSE LET candidate == candidates[i] IN
         IF DistancesRaise(embedding, candidate)
         THEN [acc EXCEPT !.raised = TRUE]
         ELSE LET min_distance == MinDistance(embedding, candidate)
                  better == BatchImproves(min_distance, acc.best_distance)
              IN  BatchCandidateLoop(embedding, candidates, i + 1,
                    [raised |-> FALSE,
                     best_match |-> IF better THEN Some(candidate.student_id)
                                    ELSE acc.best_match,
                     best_distance |-> IF better THEN min_distance
                                       ELSE acc.best_distance])

\* Faulty variant of BatchMatchResult: faces are numbered from 1.
BatchMatchResultFromOne(face_idx, best_match, best_distance, confident_threshold) ==
    IF best_distance < confident_threshold
    THEN [face_index |-> face_idx + 1, student_id |-> best_match,
          distance |-> best_distance, status |-> "present"]
    ELSE [face_index |-> face_idx + 1, student_id |-> None,
          distance |-> best_distance, status |-> "unknown"]

\* Faulty variant of BatchMatchResult: a distance equal to the threshold is
\* present.
BatchMatchResultInclusive(face_idx, best_match, best_distance, confident_threshold) ==
    IF best_distance <= confident_threshold
    THEN [face_index |-> face_idx, student_id |-> best_match,
          distance |-> best_distance, status |-> "present"]
    ELSE [face_index |-> face_idx, student_id |-> None,
          distance |-> best_distance, status |-> "unknown"]

\* Determine status (lines 330-341): the BatchMatchResult of one face.
\* face_idx is enumerate's index, counted from 0.
BatchMatchResult(face_idx, best_match, best_distance, confident_threshold) ==
    IF best_distance < confident_threshold
    THEN [face_index |-> face_idx, student_id |-> best_match,
          distance |-> best_distance, status |-> "present"]
    ELSE [face_index |-> face_idx, student_id |-> None,
          distance |-> best_distance, status |-> "unknown"]

\* The outer loop over enumerate(request.detected_faces), from position j
\* (1-based; face_idx = j - 1) with the matches appended so far.
RECURSIVE BatchLoop(_, _, _)
BatchLoop(req, j, matches) ==
    IF j > Len(req.detected_faces)
    THEN [raised |-> FALSE, matches |-> matches]
    ELSE LET r == BatchCandidateLoop(req.detected_faces[j].embedding,
                      req.candidate_embeddings, 1,
                      [raised |-> FALSE, best_match |-> None,
                       best_distance |-> Inf])
         IN  IF r.raised THEN [raised |-> TRUE, matches |-> matches]
             ELSE BatchLoop(req, j + 1,
                    Append(matches,
                           BatchMatchResult(j - 1, r.best_match, r.best_distance,
                                            req.confident_threshold)))

\* Faulty variant of BatchFailure: the matches appended so far are returned.
BatchFailureWithPartial(matches) ==
    [op |-> "batch_match", success |-> FALSE, matches |-> Some(matches),
     error |-> Some("Batch matching error: operands could not be broadcast together"),
     error_code |-> None]

\* The except branch (lines 348-352): the matches appended so far are dropped.
BatchFailure(matches) ==
    [op |-> "batch_match", success |-> FALSE, matches |-> None,
     error |-> Some("Batch matching error: operands could not be broadcast together"),
     error_code |-> None]

batch_match(req) ==
    LET r == BatchLoop(req, 1, <<>>) IN
    IF r.raised THEN BatchFailure(r.matches)
    ELSE [op |-> "batch_match", success |-> TRUE, matches |-> Some(r.matches),
          error |-> None, error_code |-> None]

\* ------------------------------------------------------------ extraction
\* app.core.constants (imported at lines 25-31), by name.
ERROR_NO_FACE == "ERROR_NO_FACE"
ERROR_MULTIPLE_FACES == "ERROR_MULTIPLE_FACES"
ERROR_FACE_TOO_SMALL == "ERROR_FACE_TOO_SMALL"
ERROR_INVALID_IMAGE == "ERROR_INVALID_IMAGE"
ERROR_PROCESSING == "ERROR_PROCESSING"

\* Settings.MIN_FACE_AREA_RATIO = 0.04, as the fraction <<4, 100>>.
MIN_FACE_AREA_RATIO == <<4, 100>>

\* An image is what decoding and the embedding provider make of
\* request.image_base64:
\*   base64_ok  base64.b64decode succeeds
\*   image_ok   Image.open(...).convert("RGB") succeeds
\*   raises     None, or Some([type, msg]): the exception the provider raises
\*   w, h       the image's dimensions
\*   faces      per detected face, in detection order, its location
\*              (top, right, bottom, left) and its encoding
\* A ratio is the fraction <<numerator, denominator>>, denominator > 0.

\* face_area = (bottom - top) * (right - left)
FaceArea(face) == (face.bottom - face.top) * (face.right - face.left)

\* a / b < c / d for positive b and d
RatioLess(x, y) == x[1] * y[2] < y[1] * x[2]

\* if face_area_ratio < request.min_face_area_ratio (line 89)
EncodeTooSmall(face_area_ratio, min_face_area_ratio) ==
    RatioLess(face_area_ratio, min_face_area_ratio)

\* Faulty variant of DetectTooSmall: a face at the minimum ratio is dropped.
DetectTooSmallInclusive(face_area_ratio, min_face_area_ratio) ==
    ~RatioLess(min_face_area_ratio, face_area_ratio)

\* if face_area_ratio < request.min_face_area_ratio: continue (line 205)
DetectTooSmall(face_area_ratio, min_face_area_ratio) ==
    RatioLess(face_area_ratio, min_face_area_ratio)

FaceLocation(face) ==
    [top |-> face.top, right |-> face.right, bottom |-> face.bottom,
     left |-> face.left]

\* "sub" in msg, for the messages of the input set.
Contains(msg, sub) ==
    <<msg, sub>> \in {<<"No face found", "No face">>,
                      <<"Multiple faces found", "Multiple">>,
                      <<"Face is too small", "too small">>}

EncodeFailure(error, error_code) ==
    [op |-> "encode_face", success |-> FALSE, embedding |-> None,
     face_location |-> None, metadata |-> None,
     error |-> Some(error), error_code |-> Some(error_code)]

\* except ValueError as e (lines 119-134)
EncodeValueError(error_msg) ==
    EncodeFailure(error_msg,
        IF Contains(error_msg, "No face") THEN ERROR_NO_FACE
        ELSE IF Contains(error_msg, "Multiple") THEN ERROR_MULTIPLE_FACES
        ELSE IF Contains(error_msg, "too small") THEN ERROR_FACE_TOO_SMALL
        ELSE ERROR_PROCESSING)

encode_face(req) ==
    LET image == req.image
        locations == image.faces
        image_area == image.h * image.w
    IN
    IF ~image.base64_ok
    THEN EncodeFailure("Invalid base64 image", ERROR_INVALID_IMAGE)
    ELSE IF ~image.image_ok
    THEN EncodeFailure("Processing error: cannot identify image file",
                       ERROR_PROCESSING)
    ELSE IF image.raises # None
    THEN IF image.raises[1].type = "ValueError"
         THEN EncodeValueError(image.raises[1].msg)
         ELSE EncodeFailure("Processing error: provider failure",
                            ERROR_PROCESSING)
    ELSE IF Len(locations) = 0
    THEN EncodeFailure("No face detected", ERROR_NO_FACE)
    ELSE IF req.validate_single /\ Len(locations) > 1
    THEN EncodeFailure("Multiple faces detected", ERROR_MULTIPLE_FACES)
    ELSE LET face == locations[1]
             face_area_ratio == <<FaceArea(face), image_area>>
         IN  IF EncodeTooSmall(face_area_ratio, req.min_face_area_ratio)
             THEN EncodeFailure("Face too small - move closer to camera",
                                ERROR_FACE_TOO_SMALL)
             ELSE [op |-> "encode_face", success |-> TRUE,
                   embedding |-> Some(face.encoding),
                   face_location |-> Some(FaceLocation(face)),
                   metadata |-> Some([face_area_ratio |-> face_area_ratio,
                                      image_dimensions |-> <<image.w, image.h>>]),
                   error |-> None, error_code |-> None]

DetectedFaceInfo(face, face_area_ratio) ==
    [embedding |-> face.encoding, location |-> FaceLocation(face),
     face_area_ratio |-> face_area_ratio]

\* The loop of detect_faces over zip(locations, encodings)[i..] (lines
\* 200-217), with the faces appended so far.
RECURSIVE DetectLoop(_, _, _)
DetectLoop(req, i, faces) ==
    IF i > Len(req.image.faces) THEN faces
    ELSE LET face == req.image.faces[i]
             face_area_ratio == <<FaceArea(face), req.image.h * req.image.w>>
         IN  IF DetectTooSmall(face_area_ratio, req.min_face_area_ratio)
             THEN DetectLoop(req, i + 1, faces)
             ELSE DetectLoop(req, i + 1,
                             Append(faces, DetectedFaceInfo(face, face_area_ratio)))

DetectFailure(error) ==
    [op |-> "detect_faces", success |-> FALSE, faces |-> None, count |-> None,
     metadata |-> None, error |-> Some(error), error_code |-> None]

\* metadata.processing_time_ms is wall-clock time and is left out.
DetectSuccess(req, faces) ==
    [op |-> "detect_faces", success |-> TRUE, faces |-> Some(faces),
     count |-> Some(Len(faces)),
     metadata |-> Some([image_dimensions |-> <<req.image.w, req.image.h>>]),
     error |-> None, error_code |-> None]

detect_faces(req) ==
    IF ~req.image.base64_ok THEN DetectFailure("Invalid base64 image")
    ELSE IF ~req.image.image_ok
    THEN DetectFailure("Detection error: cannot identify image file")
    ELSE IF req.image.raises # None
    THEN DetectFailure("Detection error: provider failure")
    ELSE IF req.image.faces = <<>> THEN DetectSuccess(req, <<>>)
    ELSE DetectSuccess(req, DetectLoop(req, 1, <<>>))

\* ------------------------------------------------------------ inputs
\* All sequences over S of length at most n.
SeqsUpTo(S, n) == UNION {[1..k -> S] : k \in 0..n}

\* Query embeddings; <<0, 0, 0>> has another length than the references.
QueryVecs == {<<0, 0>>, <<3, 0>>, <<3, 4>>, <<0, 0, 0>>}

\* The reference embeddings an identity is enrolled with: none, one, several
\* (nearest first, last or in the middle), of length 1 (which numpy
\* broadcasts) and of length 3.
EmbeddingLists ==
    {<<>>, << <<0, 0>> >>, << <<3, 4>> >>, << <<3, 4>>, <<0, 0>> >>,
     << <<3, 4>>, <<3, 0>>, <<3, 4>> >>, << <<0>> >>, << <<0, 0, 0>> >>}

StudentIds == <<"S1", "S2", "S3", "S4">>

\* Galleries: identities are unique, the i-th one is StudentIds[i].
Galleries ==
    UNION {{[i \in 1..n |-> [student_id |-> StudentIds[i], embeddings |-> e[i]]] :
              e \in [1..n -> EmbeddingLists]} : n \in 0..MaxGallery}

Thresholds == {0, 1, 4, 5, 6}

MatchRequests ==
    [op : {"match_faces"}, query_embedding : QueryVecs,
     candidate_embeddings : Galleries, threshold : Thresholds,
     return_all_distances : BOOLEAN]

DetectedFaces == [embedding : {<<0, 0>>, <<3, 0>>, <<0, 0, 0>>}]

BatchRequests ==
    [op : {"batch_match"}, detected_faces : SeqsUpTo(DetectedFaces, MaxFaces),
     candidate_embeddings : Galleries, confident_threshold : Thresholds]

\* Detected faces of a 10 x 10 image: areas 1, 4 and 9.
Faces ==
    {[top |-> 0, right |-> 1, bottom |-> 1, left |-> 0, encoding |-> <<0, 0>>],
     [top |-> 0, right |-> 2, bottom |-> 2, left |-> 0, encoding |-> <<3, 0>>],
     [top |-> 2, right |-> 5, bottom |-> 5, left |-> 2, encoding |-> <<3, 4>>]}

GoodImage(faces) ==
    [base64_ok |-> TRUE, image_ok |-> TRUE, raises |-> None, w |-> 10, h |-> 10,
     faces |-> faces]

ProviderErrors ==
    {[type |-> "ValueError", msg |-> m] :
        m \in {"No face found", "Multiple faces found", "Face is too small",
               "cannot reshape array"}}
    \cup {[type |-> "RuntimeError", msg |-> "out of memory"]}

Images ==
    {GoodImage(f) : f \in SeqsUpTo(Faces, MaxLocations)}
    \cup {[GoodImage(<<>>) EXCEPT !.base64_ok = FALSE, !.image_ok = FALSE],
          [GoodImage(<<>>) EXCEPT !.image_ok = FALSE]}
    \cup {[GoodImage(<<>>) EXCEPT !.raises = Some(e)] : e \in ProviderErrors}

MinRatios == {MIN_FACE_AREA_RATIO, <<1, 10>>, <<0, 1>>}

EncodeRequests ==
    [op : {"encode_face"}, image : Images, validate_single : BOOLEAN,
     min_face_area_ratio : MinRatios]

DetectRequests ==
    [op : {"detect_faces"}, image : Images, min_face_area_ratio : MinRatios]

\* ------------------------------------------------------------ behaviour
NoRequest == [op |-> "none"]
NoResponse == [op |-> "none"]

Init ==
    /\ pc = "idle"
    /\ request = NoRequest
    /\ response = NoResponse

\* Each action handles one request: the request is drawn from the input set
\* and the handler's return value is the response.
EncodeFace ==
    /\ pc = "idle"
    /\ \E req \in EncodeRequests :
          /\ request' = req
          /\ response' = encode_face(req)
    /\ pc' = "done"

DetectFaces ==
    /\ pc = "idle"
    /\ \E req \in DetectRequests :
          /\ request' = req
          /\ response' = detect_faces(req)
    /\ pc' = "done"

MatchFaces ==
    /\ pc = "idle"
    /\ \E req \in MatchRequests :
          /\ request' = req
          /\ response' = match_faces(req)
    /\ pc' = "done"

BatchMatch ==
    /\ pc = "idle"
    /\ \E req \in BatchRequests :
          /\ request' = req
          /\ response' = batch_match(req)
    /\ pc' = "done"

Next == EncodeFace \/ DetectFaces \/ MatchFaces \/ BatchMatch

Spec == Init /\ [][Next]_vars

\* ============================================================ properties
\* The quantities the specification speaks of, defined from the gallery as
\* a whole rather than by the handlers' loops.
Done(op) == pc = "done" /\ request.op = op

Distance(a, b) == Norm(Subtract(a, b))

SetMin(S) == CHOOSE m \in S : \A x \in S : m <= x

\* Some (query, reference) pair has two different lengths.
LengthMismatch(query, gallery) ==
    \E i \in 1..Len(gallery) : \E k \in 1..Len(gallery[i].embeddings) :
        Len(query) # Len(gallery[i].embeddings[k])

HasReference(gallery) ==
    \E i \in 1..Len(gallery) : gallery[i].embeddings # <<>>

\* An identity's representative distance: the minimum over its reference
\* embeddings, unbounded when it has none.
RepresentativeDistance(query, identity) ==
    IF identity.embeddings = <<>> THEN Inf
    ELSE SetMin({Distance(query, identity.embeddings[k]) :
                    k \in 1..Len(identity.embeddings)})

\* The minimum over all identities and all of their reference embeddings.
NearestDistance(query, gallery) ==
    SetMin(UNION {{Distance(query, gallery[i].embeddings[k]) :
                      k \in 1..Len(gallery[i].embeddings)} :
                  i \in 1..Len(gallery)})

\* The first identity, in gallery order, at the nearest distance.
FirstNearest(query, gallery) ==
    LET d == NearestDistance(query, gallery)
        at == {i \in 1..Len(gallery) :
                  RepresentativeDistance(query, gallery[i]) = d}
    IN  gallery[SetMin(at)]

\* The identity and distance reported for query are those of the nearest
\* reference embedding, first identity first.
ReportsNearest(query, gallery, student_id, distance) ==
    /\ distance = NearestDistance(query, gallery)
    /\ student_id # None =>
          student_id = Some(FirstNearest(query, gallery).student_id)
    /\ \A i \in 1..Len(gallery) :
          gallery[i].embeddings = <<>> =>
              student_id # Some(gallery[i].student_id)

\* C1: when at least one identity of the gallery has a reference embedding,
\* the distance match_faces reports, and the one batch_match reports for each
\* face, is the minimum over all identities and all of their reference
\* embeddings of the distance to the query; an identity that is reported is
\* the first one in gallery order whose representative distance is that
\* minimum, and an identity without reference embeddings is never reported.
C1_ReportsNearestIdentity ==
    /\ (Done("match_faces") /\ response.success
            /\ HasReference(request.candidate_embeddings)) =>
          /\ response.match # None
          /\ ReportsNearest(request.query_embedding,
                            request.candidate_embeddings,
                            response.match[1].student_id,
                            response.match[1].distance)
    /\ (Done("batch_match") /\ response.success
            /\ HasReference(request.candidate_embeddings)) =>
          \A j \in 1..Len(request.detected_faces) :
              ReportsNearest(request.detected_faces[j].embedding,
                             request.candidate_embeddings,
                             response.matches[1][j].student_id,
                             response.matches[1][j].distance)

\* C1 witness: two identities tie at the nearest distance, the second one
\* through the last of its reference embeddings, and the first is reported.
C1_TieReportsFirst ==
    /\ Done("match_faces") /\ response.success
    /\ Len(request.candidate_embeddings) = 2
    /\ Len(request.candidate_embeddings[2].embeddings) = 2
    /\ RepresentativeDistance(request.query_embedding,
                              request.candidate_embeddings[1])
         = RepresentativeDistance(request.query_embedding,
                                  request.candidate_embeddings[2])
    /\ ~LengthMismatch(request.query_embedding, request.candidate_embeddings)
    /\ response.match # None
    /\ response.match[1].student_id = Some("S1")

\* The decision of match_faces for a nearest distance and a threshold.
ExpectedDecision(query, gallery, threshold) ==
    LET d == NearestDistance(query, gallery) IN
    IF d < threshold
    THEN [student_id |-> Some(FirstNearest(query, gallery).student_id),
          distance |-> d, confidence |-> 1 - d, status |-> "confident"]
    ELSE [student_id |-> None, distance |-> d, confidence |-> 0,
          status |-> "no_match"]

ExpectedEntry(j, query, gallery, threshold) ==
    LET d == IF HasReference(gallery) THEN NearestDistance(query, gallery)
             ELSE Inf
    IN  IF d < threshold
        THEN [face_index |-> j - 1,
              student_id |-> Some(FirstNearest(query, gallery).student_id),
              distance |-> d, status |-> "present"]
        ELSE [face_index |-> j - 1, student_id |-> None, distance |-> d,
              status |-> "unknown"]

\* C4: a successful batch_match over N faces returns exactly N matches, and
\* the i-th one (from 0) has face_index = i and the decision of the i-th
\* face, whichever faces are present and whichever unknown.
C4_BatchOrderPreserved ==
    (Done("batch_match") /\ response.success) =>
        /\ response.matches # None
        /\ Len(response.matches[1]) = Len(request.detected_faces)
        /\ \A j \in 1..Len(request.detected_faces) :
              response.matches[1][j] =
                  ExpectedEntry(j, request.detected_faces[j].embedding,
                                request.candidate_embeddings,
                                request.confident_threshold)

\* C4 witness: three faces against two identities: present, unknown, present.
C4_UnevenBatch ==
    /\ Done("batch_match") /\ response.success
    /\ Len(request.detected_faces) = 3
    /\ Len(request.candidate_embeddings) = 2
    /\ ~\E j \in 1..3 : LengthMismatch(request.detected_faces[j].embedding,
                                       request.candidate_embeddings)
    /\ response.matches[1][1].status = "present"
    /\ response.matches[1][2].status = "unknown"
    /\ response.matches[1][3].status = "present"
    /\ response.matches[1][3].face_index = 2

\* C5: whenever the query of match_faces and some reference embedding of the
\* gallery have different lengths, the call fails: no match result and no
\* distance list, and no distance computed from the unequal vectors.
C5_LengthMismatchFails ==
    (Done("match_faces")
        /\ LengthMismatch(request.query_embedding,
                          request.candidate_embeddings)) =>
        /\ ~response.success
        /\ response.match = None
        /\ response.all_distances = None

\* Matching the face at position j raises.
FaceRaises(j) ==
    \E i \in 1..Len(request.candidate_embeddings) :
        \E k \in 1..Len(request.candidate_embeddings[i].embeddings) :
            ~Broadcastable(request.detected_faces[j].embedding,
                           request.candidate_embeddings[i].embeddings[k])

\* C6: if matching the face at some position of a batch fails, batch_match
\* returns a failure (success = false) without any matches, also when the
\* faces before it had been matched.
C6_BatchFailsAsAWhole ==
    (Done("batch_match")
        /\ \E j \in 1..Len(request.detected_faces) : FaceRaises(j)) =>
        /\ ~response.success
        /\ response.matches = None
        /\ response.error # None

\* C6 witness: the first two faces are matched, the third one fails.
C6_FailureAfterMatches ==
    /\ Done("batch_match")
    /\ Len(request.detected_faces) = 3
    /\ ~FaceRaises(1) /\ ~FaceRaises(2) /\ FaceRaises(3)
    /\ Len(BatchLoop(request, 1, <<>>).matches) = 2
    /\ ~response.success

\* C7: every failure response carries an error code and a message and no
\* result data, and every success response carries its result and no error.
C7_FailuresCarryCodeAndMessage ==
    pc = "done" =>
        /\ ~response.success =>
              /\ response.error # None
              /\ response.error_code # None
        /\ (~response.success /\ request.op = "encode_face") =>
              response.embedding = None /\ response.face_location = None
        /\ (~response.success /\ request.op = "detect_faces") =>
              response.faces = None /\ response.count = None
        /\ (~response.success /\ request.op = "match_faces") =>
              response.match = None /\ response.all_distances = None
        /\ (~response.success /\ request.op = "batch_match") =>
              response.matches = None
        /\ response.success =>
              response.error = None /\ response.error_code = None

\* The request match_faces gets for one face of a batch.
SingleRequest(embedding) ==
    [op |-> "match_faces", query_embedding |-> embedding,
     candidate_embeddings |-> request.candidate_embeddings,
     threshold |-> request.confident_threshold,
     return_all_distances |-> FALSE]

BatchLabel(status) == IF status = "confident" THEN "present" ELSE "unknown"

\* The entry agrees with the result of match_faces.
Agrees(entry, single) ==
    /\ single.success
    /\ single.match # None
    /\ entry.student_id = single.match[1].student_id
    /\ entry.distance = single.match[1].distance
    /\ entry.status = BatchLabel(single.match[1].status)

C9_AllDistances ==
    (Done("match_faces") /\ response.success) =>
        /\ request.return_all_distances =>
              /\ response.all_distances =
                    Some([i \in 1..Len(request.candidate_embeddings) |->
                            [student_id |->
                                request.candidate_embeddings[i].student_id,
                             min_distance |->
                                RepresentativeDistance(request.query_embedding,
                                    request.candidate_embeddings[i])]])
              /\ \A t \in Thresholds :
                    match_faces([request EXCEPT !.threshold = t]).all_distances
                        = response.all_distances
        /\ ~request.return_all_distances => response.all_distances = None
        /\ response.match =
              match_faces([request EXCEPT !.return_all_distances =
                              ~request.return_all_distances]).match

\* C9 witness: the list of a no_match decision over two identities, one of
\* them without reference embeddings.
C9_ListWithoutMatch ==
    /\ Done("match_faces") /\ response.success
    /\ request.return_all_distances
    /\ ~LengthMismatch(request.query_embedding, request.candidate_embeddings)
    /\ response.match # None
    /\ response.match[1].status = "no_match"
    /\ Len(response.all_distances[1]) = 2
    /\ response.all_distances[1][1].min_distance = Inf
    /\ response.all_distances[1][2].min_distance < Inf

\* The face's area ratio is below the request's minimum ratio.
BelowMinimum(face) ==
    FaceArea(face) * request.min_face_area_ratio[2]
        < request.min_face_area_ratio[1] * (request.image.w * request.image.h)

\* The faces that meet the minimum ratio, in detection order.
RECURSIVE Kept(_)
Kept(faces) ==
    IF faces = <<>> THEN <<>>
    ELSE IF BelowMinimum(Head(faces)) THEN Kept(Tail(faces))
    ELSE <<Head(faces)>> \o Kept(Tail(faces))

\* The image decodes and the provider reports its faces.
Extracted ==
    request.image.base64_ok /\ request.image.image_ok
        /\ request.image.raises = None

\* C10: a face whose area ratio is below the minimum ratio is in no
\* successful result, and a face at the minimum passes: encode_face fails
\* with FaceTooSmall for a face below it, and detect_faces succeeds with
\* exactly the faces that meet the ratio, in detection order, count being
\* their number.
C10_SizeGate ==
    /\ (Done("encode_face") /\ Extracted /\ request.image.faces # <<>>
            /\ ~(request.validate_single /\ Len(request.image.faces) > 1)) =>
          LET face == request.image.faces[1] IN
          IF BelowMinimum(face)
          THEN /\ ~response.success
               /\ response.error_code = Some(ERROR_FACE_TOO_SMALL)
               /\ response.embedding = None
          ELSE /\ response.success
               /\ response.embedding = Some(face.encoding)
               /\ response.face_location = Some(FaceLocation(face))
    /\ (Done("encode_face") /\ response.success) =>
          ~BelowMinimum(request.image.faces[1])
    /\ (Done("detect_faces") /\ Extracted) =>
          LET kept == Kept(request.image.faces) IN
          /\ response.success
          /\ response.count = Some(Len(kept))
          /\ response.faces # None
          /\ Len(response.faces[1]) = Len(kept)
          /\ \A i \in 1..Len(kept) :
                /\ response.faces[1][i].embedding = kept[i].encoding
                /\ response.faces[1][i].location = FaceLocation(kept[i])

\* C10 witness: detect_faces on three faces, below, at and above the
\* minimum ratio: the first is dropped, the other two are returned.
C10_DropsSmallFace ==
    /\ Done("detect_faces") /\ response.success
    /\ Len(request.image.faces) = 3
    /\ BelowMinimum(request.image.faces[1])
    /\ FaceArea(request.image.faces[2]) * request.min_face_area_ratio[2]
         = request.min_face_area_ratio[1] * (request.image.w * request.image.h)
    /\ ~BelowMinimum(request.image.faces[3])
    /\ response.count = Some(2)
    /\ response.faces[1][1].embedding = request.image.faces[2].encoding

====
